---- MODULE Spec2Model ----
(***************************************************************************)
(* Model of the hashira-polynomial solvers: the base-N BigInt parser, the  *)
(* fraction reduction, the exact Lagrange evaluator at x = 0, the point    *)
(* set builders (file and string variants), the naive command-line         *)
(* findConstantTerm of solve.js and the batch drivers over the .json files *)
(* of the working directory.                                               *)
(*                                                                         *)
(* A JavaScript string is a sequence of one-character strings.  The token  *)
(* "KELVIN" stands for the single code point U+212A, the only character    *)
(* outside ASCII whose toLowerCase() is a letter of the digit alphabet.    *)
(***************************************************************************)
EXTENDS Integers, Sequences, FiniteSets, TLC

VARIABLES valueString, base, parseResult

\* computeConstantTermFromSelected: its arguments, its position (evalPc),
\* the outer loop index j, the last reduced term, the running total and the
\* outcome.
VARIABLES selectedPoints, k, evalPc, j, termNum, termDen, totalNum, totalDen,
          evalResult

\* The point set builders: the parsed JSON object (data), which builder ran
\* (variant), the k points it selected and the outcome.
VARIABLES data, variant, selected, buildResult

\* solve.js: the outcome of findConstantTerm on data.
VARIABLES constantTerm

\* The batch drivers: the working directory (cwd: whether it can be listed,
\* and its entries in directory order, each a name, what reading it gives
\* and what each solver makes of that), which driver runs, its position
\* (batchPc), the sorted list of sources, the loop index, the lines written
\* so far and process.exitCode.
VARIABLES cwd, driver, batchPc, jsonFiles, fileIdx, emitted, exitCode

parseVars == <<valueString, base, parseResult>>
evalVars == <<selectedPoints, k, evalPc, j, termNum, termDen, totalNum, totalDen,
              evalResult>>
buildVars == <<data, variant, selected, buildResult>>
solveVars == <<constantTerm>>
batchVars == <<cwd, driver, batchPc, jsonFiles, fileIdx, emitted, exitCode>>
vars == <<parseVars, evalVars, buildVars, solveVars, batchVars>>

(***************************************************************************)
(* Bounds                                                                  *)
(***************************************************************************)
MaxStrLen == 3
MaxPoints == 3
MaxCoef == 1
MaxEntries == 3
MaxFiles == 3

(***************************************************************************)
(* BigInt arithmetic                                                       *)
(***************************************************************************)
Abs(a) == IF a < 0 THEN -a ELSE a

\* BigInt `/` truncates toward zero.
TruncDiv(a, b) ==
    IF (a >= 0) = (b > 0) THEN Abs(a) \div Abs(b) ELSE -(Abs(a) \div Abs(b))

\* BigInt `%` takes the sign of the dividend.
TruncRem(a, b) == a - b * TruncDiv(a, b)

RECURSIVE GcdLoop(_, _)
GcdLoop(a, b) == IF b = 0 THEN a ELSE GcdLoop(b, TruncRem(a, b))

bigIntGcd(a, b) == GcdLoop(Abs(a), Abs(b))

Ok(v) == [kind |-> "ok", value |-> v]
Err(e) == [kind |-> e]
Pending == [kind |-> "pending"]

reduceFractionMutNoSign(num, den) ==
    IF den = 0 THEN Err("ZeroDenominator")
    ELSE LET g == bigIntGcd(Abs(num), den)
         IN  Ok(<<TruncDiv(num, g), TruncDiv(den, g)>>)

reduceFraction(num, den) ==
    IF den = 0 THEN Err("ZeroDenominator")
    ELSE LET n == IF den < 0 THEN -num ELSE num
             d == IF den < 0 THEN -den ELSE den
             g == bigIntGcd(Abs(n), d)
         IN  Ok(<<TruncDiv(n, g), TruncDiv(d, g)>>)

(***************************************************************************)
(* Base-N parser                                                           *)
(***************************************************************************)
DIGITS == << "0", "1", "2", "3", "4", "5", "6", "7", "8", "9",
             "a", "b", "c", "d", "e", "f", "g", "h", "i", "j",
             "k", "l", "m", "n", "o", "p", "q", "r", "s", "t",
             "u", "v", "w", "x", "y", "z" >>

UPPER == << "A", "B", "C", "D", "E", "F", "G", "H", "I", "J",
            "K", "L", "M", "N", "O", "P", "Q", "R", "S", "T",
            "U", "V", "W", "X", "Y", "Z" >>

\* String.prototype.toLowerCase on one character.
toLowerCase(ch) ==
    IF ch = "KELVIN" THEN "k"
    ELSE IF \E i \in 1..26 : UPPER[i] = ch
         THEN DIGITS[10 + (CHOOSE i \in 1..26 : UPPER[i] = ch)]
         ELSE ch

\* DIGIT_MAP.has(cl) ? DIGIT_MAP.get(cl) : -1
DIGIT_MAP(cl) ==
    IF \E i \in 1..36 : DIGITS[i] = cl
    THEN (CHOOSE i \in 1..36 : DIGITS[i] = cl) - 1
    ELSE -1

IsSpace(ch) == ch = " "

RECURSIVE TrimStart(_)
TrimStart(s) ==
    IF s # <<>> /\ IsSpace(Head(s)) THEN TrimStart(Tail(s)) ELSE s

RECURSIVE TrimEnd(_)
TrimEnd(s) ==
    IF s # <<>> /\ IsSpace(s[Len(s)]) THEN TrimEnd(SubSeq(s, 1, Len(s) - 1)) ELSE s

\* String.prototype.trim
trim(s) == TrimEnd(TrimStart(s))

\* The mutant drops the g flag: only the first separator is removed.
RECURSIVE stripSeparatorsMutFirst(_)
stripSeparatorsMutFirst(s) ==
    IF s = <<>> THEN s
    ELSE IF Head(s) = "_" THEN Tail(s)
    ELSE <<Head(s)>> \o stripSeparatorsMutFirst(Tail(s))

\* s.replace(/_/g, '')
stripSeparators(s) == SelectSeq(s, LAMBDA ch : ch # "_")

\* The mutant accepts a digit equal to the base (>= written as >).
RECURSIVE DigitLoopMutGt(_, _, _)
DigitLoopMutGt(s, b, result) ==
    IF s = <<>> THEN Ok(result)
    ELSE LET digit == DIGIT_MAP(toLowerCase(Head(s)))
         IN  IF digit = -1 \/ digit > b
             THEN Err("InvalidCharacter")
             ELSE DigitLoopMutGt(Tail(s), b, result * b + digit)

\* The digit loop: the running result, or the first invalid character's error.
RECURSIVE DigitLoop(_, _, _)
DigitLoop(s, b, result) ==
    IF s = <<>> THEN Ok(result)
    ELSE LET digit == DIGIT_MAP(toLowerCase(Head(s)))
         IN  IF digit = -1 \/ digit >= b
             THEN Err("InvalidCharacter")
             ELSE DigitLoop(Tail(s), b, result * b + digit)

ApplySign(r, sign) == IF r.kind = "ok" THEN Ok(sign * r.value) ELSE r

\* Lines 45-58: s is the string after the sign.
ParseUnsigned(s, sign, b) ==
    IF s = <<>> THEN Err("EmptyValue")
    ELSE IF stripSeparators(s) = <<>> THEN Err("EmptyValue")
    ELSE ApplySign(DigitLoop(stripSeparators(s), b, 0), sign)

\* Lines 36-43: s is the trimmed string.
ParseTrimmed(s, b) ==
    IF s = <<>> THEN Err("EmptyValue")
    ELSE IF Head(s) = "-" THEN ParseUnsigned(Tail(s), -1, b)
    ELSE IF Head(s) = "+" THEN ParseUnsigned(Tail(s), 1, b)
    ELSE ParseUnsigned(s, 1, b)

\* The mutant forgets the sign.
ParseTrimmedMutSign(s, b) ==
    IF s = <<>> THEN Err("EmptyValue")
    ELSE IF Head(s) \in {"+", "-"} THEN ParseUnsigned(Tail(s), 1, b)
    ELSE ParseUnsigned(s, 1, b)

parseBigIntFromStringMutSign(str, b) ==
    IF ~b.isInteger \/ b.n < 2 \/ b.n > 36 THEN Err("InvalidBase")
    ELSE ParseTrimmedMutSign(trim(str), b.n)

\* A base is a JavaScript number after Number(base): an integer n, or a
\* non-integer (NaN, 2.5) for which isInteger is FALSE.
\* The three "empty" messages of the code (lines 36, 42, 46) are the one
\* error kind EmptyValue.
parseBigIntFromString(str, b) ==
    IF ~b.isInteger \/ b.n < 2 \/ b.n > 36 THEN Err("InvalidBase")
    ELSE ParseTrimmed(trim(str), b.n)

(***************************************************************************)
(* Inputs of the parser                                                    *)
(***************************************************************************)
ParseChars == {"0", "1", "9", "a", "A", "z", "_", "+", "-", " ", "KELVIN"}

SeqsUpTo(S, n) == UNION {[1..m -> S] : m \in 0..n}

IntBase(n) == [isInteger |-> TRUE, n |-> n]
NonIntegerBase == [isInteger |-> FALSE, n |-> 0]

ParseBases == {IntBase(n) : n \in {1, 2, 10, 11, 16, 36, 37}} \cup {NonIntegerBase}

ParseIdle ==
    /\ valueString = <<>>
    /\ base = NonIntegerBase
    /\ parseResult = Pending

EvalIdle ==
    /\ selectedPoints = <<>>
    /\ k = 0
    /\ evalPc = "idle"
    /\ j = 0
    /\ termNum = 0
    /\ termDen = 1
    /\ totalNum = 0
    /\ totalDen = 1
    /\ evalResult = Pending

BuildIdle ==
    /\ data = [keysK |-> [t |-> "undefined", n |-> 0], props |-> <<>>]
    /\ variant = "none"
    /\ selected = <<>>
    /\ buildResult = Pending

SolveIdle == constantTerm = Pending

BatchIdle ==
    /\ cwd = [readable |-> FALSE, entries |-> <<>>]
    /\ driver = "none"
    /\ batchPc = "idle"
    /\ jsonFiles = <<>>
    /\ fileIdx = 0
    /\ emitted = <<>>
    /\ exitCode = 0

InitParse ==
    /\ valueString \in SeqsUpTo(ParseChars, MaxStrLen)
    /\ base \in ParseBases
    /\ parseResult = Pending
    /\ EvalIdle
    /\ BuildIdle
    /\ SolveIdle
    /\ BatchIdle

Parse ==
    /\ parseResult = Pending
    /\ parseResult' = parseBigIntFromString(valueString, base)
    /\ UNCHANGED <<valueString, base>>
    /\ UNCHANGED <<evalVars, buildVars, solveVars, batchVars>>

NextParse == Parse

SpecParse == InitParse /\ [][NextParse]_vars

(***************************************************************************)
(* Exact Lagrange evaluator                                                *)
(***************************************************************************)
Point(x, y) == [x |-> x, y |-> y]

\* The mutant has no duplicate check.
RECURSIVE InnerLoopMutNoCheck(_, _, _, _, _, _)
InnerLoopMutNoCheck(pts, kk, jj, i, numerator, denominator) ==
    IF i > kk THEN Ok(<<numerator, denominator>>)
    ELSE IF i = jj THEN InnerLoopMutNoCheck(pts, kk, jj, i + 1, numerator, denominator)
    ELSE InnerLoopMutNoCheck(pts, kk, jj, i + 1,
                             numerator * (0 - pts[i].x),
                             denominator * (pts[jj].x - pts[i].x))

\* The inner loop of iteration jj (1-based here) from index i on: the pair
\* <<numerator, denominator>>, or DuplicateX at the first xi = xj.
RECURSIVE InnerLoop(_, _, _, _, _, _)
InnerLoop(pts, kk, jj, i, numerator, denominator) ==
    IF i > kk THEN Ok(<<numerator, denominator>>)
    ELSE IF i = jj THEN InnerLoop(pts, kk, jj, i + 1, numerator, denominator)
    ELSE IF pts[i].x = pts[jj].x THEN Err("DuplicateX")
    ELSE InnerLoop(pts, kk, jj, i + 1,
                   numerator * (0 - pts[i].x),
                   denominator * (pts[jj].x - pts[i].x))

\* Lines 88-90: the reduced term and the reduced new total.
WithTotal(term, total) ==
    IF total.kind # "ok" THEN total ELSE Ok([term |-> term, total |-> total.value])

\* The mutant adds the term without cross-multiplying the running total.
AccumulateMutAdd(term, tNum, tDen) ==
    WithTotal(term, reduceFraction(tNum + term[1] * tDen, tDen * term[2]))

Accumulate(term, tNum, tDen) ==
    WithTotal(term, reduceFraction(tNum * term[2] + term[1] * tDen, tDen * term[2]))

\* Line 86.
WithTerm(term, tNum, tDen) ==
    IF term.kind # "ok" THEN term ELSE Accumulate(term.value, tNum, tDen)

\* Lines 84-85.
WithBasis(basis, yj, tNum, tDen) ==
    IF basis.kind # "ok" THEN basis
    ELSE WithTerm(reduceFraction(yj * basis.value[1], basis.value[2]), tNum, tDen)

\* One iteration of the outer loop (lines 70-90): the reduced term and the
\* new running total, or the error.
OuterIteration(pts, kk, jj, tNum, tDen) ==
    WithBasis(InnerLoop(pts, kk, jj, 1, 1, 1), pts[jj].y, tNum, tDen)

\* The argument checks of lines 62-64; k is a JavaScript integer here.
ArgumentError(pts, kk) ==
    IF kk <= 0 THEN Err("InvalidK")
    ELSE IF Len(pts) < kk THEN Err("NeedAtLeastK")
    ELSE Ok(<<>>)

\* The end of the function: lines 93-94.
FinalResult(tNum, tDen) ==
    IF tDen = 0 THEN Err("DegenerateDenominator") ELSE reduceFraction(tNum, tDen)

RECURSIVE OuterLoop(_, _, _, _, _)
RECURSIVE OuterLoopNext(_, _, _, _)
OuterLoopNext(r, pts, kk, jj) ==
    IF r.kind # "ok" THEN r
    ELSE OuterLoop(pts, kk, jj + 1, r.value.total[1], r.value.total[2])

OuterLoop(pts, kk, jj, tNum, tDen) ==
    IF jj > kk THEN FinalResult(tNum, tDen)
    ELSE OuterLoopNext(OuterIteration(pts, kk, jj, tNum, tDen), pts, kk, jj)

computeConstantTermFromSelected(pts, kk) ==
    IF ArgumentError(pts, kk).kind # "ok" THEN ArgumentError(pts, kk)
    ELSE OuterLoop(pts, kk, 1, 0, 1)

(***************************************************************************)
(* Inputs of the evaluator                                                 *)
(***************************************************************************)
XValues == -1..2
YValues == {-1, 2}
Coefs == -MaxCoef..MaxCoef

RECURSIVE PolyAt(_, _, _)
\* c[1] + c[2] x + ... + c[n] x^(n-1), by Horner from coefficient i on.
PolyAt(c, i, x) == IF i > Len(c) THEN 0 ELSE c[i] + x * PolyAt(c, i + 1, x)

Injective(f) == \A a, b \in DOMAIN f : a # b => f[a] # f[b]

\* Any points with a small y, for any k, also k = 0 and k > length.
ArbitraryInputs(pts, kk) ==
    \E n \in 0..MaxPoints :
        \E xs \in [1..n -> XValues], ys \in [1..n -> YValues] :
            /\ pts = [i \in 1..n |-> Point(xs[i], ys[i])]
            /\ kk \in 0..(n + 1)

\* k points with distinct x sampled from an integer polynomial of degree < k.
PolynomialInputs(pts, kk) ==
    \E n \in 1..MaxPoints :
        \E xs \in [1..n -> XValues], c \in [1..n -> Coefs] :
            /\ Injective(xs)
            /\ pts = [i \in 1..n |-> Point(xs[i], PolyAt(c, 1, xs[i]))]
            /\ kk = n

InitEval ==
    /\ ArbitraryInputs(selectedPoints, k) \/ PolynomialInputs(selectedPoints, k)
    /\ evalPc = "start"
    /\ j = 0
    /\ termNum = 0
    /\ termDen = 1
    /\ totalNum = 0
    /\ totalDen = 1
    /\ evalResult = Pending
    /\ ParseIdle
    /\ BuildIdle
    /\ SolveIdle
    /\ BatchIdle

\* Lines 62-67.
EvalEnter ==
    /\ evalPc = "start"
    /\ IF ArgumentError(selectedPoints, k).kind # "ok"
       THEN /\ evalResult' = ArgumentError(selectedPoints, k)
            /\ evalPc' = "done"
       ELSE /\ evalPc' = "loop"
            /\ UNCHANGED evalResult
    /\ UNCHANGED <<selectedPoints, k, j, termNum, termDen, totalNum, totalDen>>
    /\ UNCHANGED <<parseVars, buildVars, solveVars, batchVars>>

EvalIterationWith(r) ==
    IF r.kind # "ok"
    THEN /\ evalResult' = r
         /\ evalPc' = "done"
         /\ UNCHANGED <<j, termNum, termDen, totalNum, totalDen>>
    ELSE /\ termNum' = r.value.term[1]
         /\ termDen' = r.value.term[2]
         /\ totalNum' = r.value.total[1]
         /\ totalDen' = r.value.total[2]
         /\ j' = j + 1
         /\ UNCHANGED <<evalPc, evalResult>>

\* Lines 69-91, one value of j (0-based as in the code).
EvalIteration ==
    /\ evalPc = "loop"
    /\ j < k
    /\ EvalIterationWith(OuterIteration(selectedPoints, k, j + 1, totalNum, totalDen))
    /\ UNCHANGED <<selectedPoints, k>>
    /\ UNCHANGED <<parseVars, buildVars, solveVars, batchVars>>

\* Lines 93-94.
EvalReturn ==
    /\ evalPc = "loop"
    /\ j = k
    /\ evalResult' = FinalResult(totalNum, totalDen)
    /\ evalPc' = "done"
    /\ UNCHANGED <<selectedPoints, k, j, termNum, termDen, totalNum, totalDen>>
    /\ UNCHANGED <<parseVars, buildVars, solveVars, batchVars>>

NextEval == EvalEnter \/ EvalIteration \/ EvalReturn

SpecEval == InitEval /\ [][NextEval]_vars

(***************************************************************************)
(* Point set builders                                                      *)
(*                                                                         *)
(* data is the object JSON.parse returned: keysK is data.keys.k, and props *)
(* lists the other properties, with distinct keys, in the order of the     *)
(* JSON text.  A JSON value is a record [t, s, n]: t its type, s a         *)
(* string's characters, n a number's (integer) value.                      *)
(***************************************************************************)
Undefined == [t |-> "undefined", s |-> <<>>, n |-> 0]
Null == [t |-> "null", s |-> <<>>, n |-> 0]
Str(s) == [t |-> "string", s |-> s, n |-> 0]
Num(n) == [t |-> "number", s |-> <<>>, n |-> n]
Bool(b) == [t |-> "boolean", s |-> <<>>, n |-> IF b THEN 1 ELSE 0]
Obj == [t |-> "object", s |-> <<>>, n |-> 0]

\* An entry {value, base}, and the entries that are no such object.
Entry(value, b) == [t |-> "object", value |-> value, base |-> b]
NullEntry == [t |-> "null", value |-> Undefined, base |-> Undefined]
NumberEntry == [t |-> "number", value |-> Undefined, base |-> Undefined]

IsDecimalDigit(ch) == \E i \in 1..10 : DIGITS[i] = ch

\* /^-?\d+$/.test(rawKey)
IsPointKey(key) ==
    LET digits == IF key # <<>> /\ Head(key) = "-" THEN Tail(key) ELSE key
    IN  digits # <<>> /\ \A i \in 1..Len(digits) : IsDecimalDigit(digits[i])

RECURSIVE DecimalValue(_, _)
DecimalValue(digits, acc) ==
    IF digits = <<>> THEN acc
    ELSE DecimalValue(Tail(digits), acc * 10 + DIGIT_MAP(Head(digits)))

\* BigInt(rawKey) for a key that passed the test.
KeyToBigInt(key) ==
    IF Head(key) = "-" THEN -DecimalValue(Tail(key), 0) ELSE DecimalValue(key, 0)

\* An integer index key ("0", "7", "12"; not "01", "-1"): such keys come
\* first, in ascending numeric order, when an object's keys are listed.
IsArrayIndex(key) ==
    /\ key # <<>>
    /\ \A i \in 1..Len(key) : IsDecimalDigit(key[i])
    /\ Len(key) = 1 \/ Head(key) # "0"

RECURSIVE InsertIndex(_, _)
InsertIndex(sorted, p) ==
    IF sorted = <<>> THEN <<p>>
    ELSE IF DecimalValue(p.key, 0) < DecimalValue(Head(sorted).key, 0)
         THEN <<p>> \o sorted
         ELSE <<Head(sorted)>> \o InsertIndex(Tail(sorted), p)

RECURSIVE SortIndexKeys(_)
SortIndexKeys(ps) ==
    IF ps = <<>> THEN <<>>
    ELSE InsertIndex(SortIndexKeys(SubSeq(ps, 1, Len(ps) - 1)), ps[Len(ps)])

\* Object.keys(data) without "keys", each with its entry: integer index keys
\* ascending, then the other keys in insertion order.
ObjectKeys(props) ==
    SortIndexKeys(SelectSeq(props, LAMBDA p : IsArrayIndex(p.key)))
        \o SelectSeq(props, LAMBDA p : ~IsArrayIndex(p.key))

\* String(rawValue) of a number (an integer here) or a boolean.
RECURSIVE NatString(_)
NatString(n) ==
    IF n < 10 THEN <<DIGITS[n + 1]>> ELSE NatString(n \div 10) \o <<DIGITS[(n % 10) + 1]>>

StringOf(v) ==
    IF v.t = "boolean"
    THEN (IF v.n = 1 THEN <<"t", "r", "u", "e">> ELSE <<"f", "a", "l", "s", "e">>)
    ELSE IF v.n < 0 THEN <<"-">> \o NatString(-v.n) ELSE NatString(v.n)

\* parseInt(entry.base, 10): the integer of a JSON integer, NaN for null.
ParseIntBase(b) == IF b.t = "number" THEN IntBase(b.n) ELSE NonIntegerBase

\* pts.push({ x, y }) once y is parsed.
PointFrom(key, y) ==
    IF y.kind # "ok" THEN y ELSE Ok(Point(KeyToBigInt(key), y.value))

\* Lines 119-123 of the string builder: the string handed to the parser.
ValueString(v) == IF v.t = "string" THEN v.s ELSE StringOf(v)

\* The loop body of findConstantTermFromString: the point, or the error.
PointOfEntryString(p) ==
    IF ~IsPointKey(p.key) THEN Err("InvalidPointKey")
    ELSE IF p.entry.t = "null" \/ p.entry.base.t = "undefined"
    THEN Err("InvalidPointEntry")
    ELSE IF p.entry.value.t \notin {"string", "number", "boolean"}
    THEN Err("InvalidValueType")
    ELSE PointFrom(p.key, parseBigIntFromString(ValueString(p.entry.value),
                                                ParseIntBase(p.entry.base)))

\* The loop body of findConstantTermFromFile: the point, or the error.
PointOfEntryFile(p) ==
    IF ~IsPointKey(p.key) THEN Err("InvalidPointKey")
    ELSE IF p.entry.t = "null" \/ p.entry.value.t # "string"
              \/ p.entry.base.t = "undefined"
    THEN Err("InvalidPointEntry")
    ELSE PointFrom(p.key, parseBigIntFromString(p.entry.value.s,
                                                ParseIntBase(p.entry.base)))

PointOfEntry(p, v) == IF v = "file" THEN PointOfEntryFile(p) ELSE PointOfEntryString(p)

\* The loop over Object.keys: all points pushed, or the first error.
RECURSIVE CollectPoints(_, _, _)
RECURSIVE CollectNext(_, _, _, _)
CollectNext(r, rest, v, pts) ==
    IF r.kind # "ok" THEN r ELSE CollectPoints(rest, v, Append(pts, r.value))

CollectPoints(ps, v, pts) ==
    IF ps = <<>> THEN Ok(pts)
    ELSE CollectNext(PointOfEntry(Head(ps), v), Tail(ps), v, pts)

RECURSIVE InsertByX(_, _)
InsertByX(sorted, pt) ==
    IF sorted = <<>> THEN <<pt>>
    ELSE IF pt.x < Head(sorted).x THEN <<pt>> \o sorted
    ELSE <<Head(sorted)>> \o InsertByX(Tail(sorted), pt)

\* The mutant does not sort.
sortByXMutNone(pts) == pts

\* pts.sort(by x): ascending and stable.
RECURSIVE sortByX(_)
sortByX(pts) ==
    IF pts = <<>> THEN <<>>
    ELSE InsertByX(sortByX(SubSeq(pts, 1, Len(pts) - 1)), pts[Len(pts)])

\* The mutant is off by one.
NotEnoughPointsMutOffByOne(pts, kk) == Len(pts) + 1 < kk

\* pts.length < k
NotEnoughPoints(pts, kk) == Len(pts) < kk

AdjacentDuplicate(sel) == \E i \in 2..Len(sel) : sel[i].x = sel[i - 1].x

\* keys.k: missing, or Number(k) not a positive integer.
KError(keysK) ==
    IF keysK.t = "undefined" THEN Err("MissingK")
    ELSE IF keysK.t # "number" \/ keysK.n <= 0 THEN Err("InvalidK")
    ELSE Ok(<<>>)

\* pts.slice(0, k)
Slice(pts, kk) == SubSeq(pts, 1, IF kk < Len(pts) THEN kk ELSE Len(pts))

Failed(e) == [selected |-> <<>>, result |-> e]

\* The duplicate scan and the call of the evaluator.
BuildFromSelected(sel, kk) ==
    IF AdjacentDuplicate(sel) THEN [selected |-> sel, result |-> Err("DuplicateX")]
    ELSE [selected |-> sel, result |-> computeConstantTermFromSelected(sel, kk)]

\* The count check, the sort and the selection.
BuildFromPoints(collected, kk) ==
    IF collected.kind # "ok" THEN Failed(collected)
    ELSE IF NotEnoughPoints(collected.value, kk) THEN Failed(Err("InsufficientPoints"))
    ELSE BuildFromSelected(Slice(sortByX(collected.value), kk), kk)

\* Both builders from the parsed object on: [selected, result].
Build(d, v) ==
    IF KError(d.keysK).kind # "ok" THEN Failed(KError(d.keysK))
    ELSE BuildFromPoints(CollectPoints(ObjectKeys(d.props), v, <<>>), d.keysK.n)

(***************************************************************************)
(* Inputs of the builders                                                  *)
(***************************************************************************)
KeyPool == { <<"1">>, <<"2">>, <<"0", "1">>, <<"0", "0", "1">>, <<"0", "2">>,
             <<"-", "1">>, <<"x">> }

GoodEntries == { Entry(Str(<<"5">>), Num(10)), Entry(Str(<<"-", "1", "_", "1">>), Num(2)) }

EntryPool ==
    GoodEntries \cup
    { Entry(Undefined, Num(10)),
      Entry(Str(<<"7">>), Undefined),
      NullEntry,
      NumberEntry,
      Entry(Num(12), Num(10)),
      Entry(Bool(TRUE), Num(36)),
      Entry(Null, Num(10)),
      Entry(Str(<<"7">>), Num(1)) }

KPool == { Undefined, Num(0), Null }

\* Records with any distinct keys of the pool and good entries.
KeyRecords(d) ==
    \E n \in 0..MaxEntries :
        \E keys \in [1..n -> KeyPool], es \in [1..n -> GoodEntries], kk \in 1..(n + 1) :
            /\ Injective(keys)
            /\ d = [keysK |-> Num(kk),
                    props |-> [i \in 1..n |-> [key |-> keys[i], entry |-> es[i]]]]

\* Records with the keys "1", "2", ... and any entries of the pool.
EntryRecords(d) ==
    \E n \in 0..MaxEntries :
        \E es \in [1..n -> EntryPool], kk \in {Num(m) : m \in 1..(n + 1)} \cup KPool :
            d = [keysK |-> kk,
                 props |-> [i \in 1..n |-> [key |-> NatString(i), entry |-> es[i]]]]

InitBuild ==
    /\ KeyRecords(data) \/ EntryRecords(data)
    /\ variant = "none"
    /\ selected = <<>>
    /\ buildResult = Pending
    /\ ParseIdle
    /\ EvalIdle
    /\ SolveIdle
    /\ BatchIdle

Built(built) ==
    /\ selected' = built.selected
    /\ buildResult' = built.result

findConstantTermFromString ==
    /\ variant = "none"
    /\ variant' = "string"
    /\ Built(Build(data, "string"))
    /\ UNCHANGED data
    /\ UNCHANGED <<parseVars, evalVars, solveVars, batchVars>>

findConstantTermFromFile ==
    /\ variant = "none"
    /\ variant' = "file"
    /\ Built(Build(data, "file"))
    /\ UNCHANGED data
    /\ UNCHANGED <<parseVars, evalVars, solveVars, batchVars>>

NextBuild == findConstantTermFromString \/ findConstantTermFromFile

SpecBuild == InitBuild /\ [][NextBuild]_vars

(***************************************************************************)
(* solve.js and its argument-taking variant: findConstantTerm              *)
(***************************************************************************)
\* parseBigInt: no sign, no separators, no trimming, no base check; BigInt of
\* a NaN base throws before the loop.
RECURSIVE ParseBigIntLoop(_, _, _)
ParseBigIntLoop(s, b, result) ==
    IF s = <<>> THEN Ok(result)
    ELSE LET digitValue == DIGIT_MAP(toLowerCase(Head(s)))
         IN  IF digitValue = -1 \/ digitValue >= b
             THEN Err("InvalidCharacter")
             ELSE ParseBigIntLoop(Tail(s), b, result * b + digitValue)

parseBigInt(v, b) ==
    IF ~b.isInteger THEN Err("RangeError")
    ELSE IF v.t # "string" THEN Err("TypeError")
    ELSE ParseBigIntLoop(v.s, b.n, 0)

\* BigInt(key): a decimal literal with an optional sign; anything else throws.
SolveKeyOk(key) ==
    IsPointKey(key) \/ (key # <<>> /\ Head(key) = "+" /\ IsPointKey(Tail(key)))

SolveKeyToBigInt(key) == KeyToBigInt(IF Head(key) = "+" THEN Tail(key) ELSE key)

SolvePointFrom(key, y) ==
    IF y.kind # "ok" THEN y ELSE Ok(Point(SolveKeyToBigInt(key), y.value))

SolvePoint(p) ==
    IF ~SolveKeyOk(p.key) THEN Err("SyntaxError")
    ELSE IF p.entry.t = "null" THEN Err("TypeError")
    ELSE SolvePointFrom(p.key, parseBigInt(p.entry.value, ParseIntBase(p.entry.base)))

RECURSIVE SolveCollect(_, _)
RECURSIVE SolveCollectNext(_, _, _)
SolveCollectNext(r, rest, pts) ==
    IF r.kind # "ok" THEN r ELSE SolveCollect(rest, Append(pts, r.value))

SolveCollect(ps, pts) ==
    IF ps = <<>> THEN Ok(pts)
    ELSE SolveCollectNext(SolvePoint(Head(ps)), Tail(ps), pts)

\* allPoints.sort((a, b) => (a.x < b.x ? -1 : 1)): ascending in x; the
\* comparator is inconsistent on equal x, so their order is any order.
SortOutcomes(pts) ==
    {[i \in 1..Len(pts) |-> pts[f[i]]] : f \in
        {g \in {h \in [1..Len(pts) -> 1..Len(pts)] : Injective(h)} :
            \A i \in 1..(Len(pts) - 1) : pts[g[i]].x <= pts[g[i + 1]].x}}

\* (yj * numerator) / denominator: BigInt division, truncated.
SolveTerm(yj, numerator, denominator) ==
    IF denominator = 0 THEN Err("RangeError")
    ELSE Ok(TruncDiv(yj * numerator, denominator))

RECURSIVE SolveProducts(_, _, _, _, _, _)
SolveProducts(pts, kk, jj, i, numerator, denominator) ==
    IF i > kk THEN <<numerator, denominator>>
    ELSE IF i = jj THEN SolveProducts(pts, kk, jj, i + 1, numerator, denominator)
    ELSE SolveProducts(pts, kk, jj, i + 1,
                       numerator * (0 - pts[i].x),
                       denominator * (pts[jj].x - pts[i].x))

RECURSIVE SolveLoop(_, _, _, _)
RECURSIVE SolveLoopNext(_, _, _, _, _)
SolveLoopNext(term, pts, kk, jj, acc) ==
    IF term.kind # "ok" THEN term ELSE SolveLoop(pts, kk, jj + 1, acc + term.value)

SolveTermOf(yj, nd) == SolveTerm(yj, nd[1], nd[2])

SolveLoop(pts, kk, jj, acc) ==
    IF jj > kk THEN Ok(acc)
    ELSE SolveLoopNext(SolveTermOf(pts[jj].y, SolveProducts(pts, kk, jj, 1, 1, 1)),
                       pts, kk, jj, acc)

\* findConstantTerm from the parsed object on, for one outcome of the sort.
SolveFrom(d, sorted) ==
    IF Len(Slice(sorted, d.keysK.n)) < d.keysK.n THEN Err("NotEnoughPoints")
    ELSE SolveLoop(Slice(sorted, d.keysK.n), d.keysK.n, 1, 0)

(***************************************************************************)
(* Inputs of solve.js                                                      *)
(***************************************************************************)
SolveKeys == { <<"1">>, <<"2">>, <<"4">>, <<"0", "3">> }
SolveBases == {10, 16}

\* The numeral of n >= 0 in base b, and "-" before that of -n.
RECURSIVE BaseString(_, _)
BaseString(n, b) ==
    IF n < 0 THEN <<"-">> \o BaseString(-n, b)
    ELSE IF n < b THEN <<DIGITS[n + 1]>>
    ELSE BaseString(n \div b, b) \o <<DIGITS[(n % b) + 1]>>

\* k points with distinct x on an integer polynomial of degree < k, each y
\* written in the record's base, and possibly one fewer point than k.
SolveRecords(d) ==
    \E n \in 1..MaxEntries :
        \E keys \in [1..n -> SolveKeys], c \in [1..n -> Coefs], b \in SolveBases,
           kk \in {n, n + 1} :
            /\ Injective(keys)
            /\ d = [keysK |-> Num(kk),
                    props |-> [i \in 1..n |->
                        [key |-> keys[i],
                         entry |-> Entry(Str(BaseString(PolyAt(c, 1, KeyToBigInt(keys[i])), b)),
                                         Num(b))]]]

InitSolve ==
    /\ SolveRecords(data)
    /\ variant = "none"
    /\ selected = <<>>
    /\ buildResult = Pending
    /\ constantTerm = Pending
    /\ ParseIdle
    /\ EvalIdle
    /\ BatchIdle

Solved(collected) ==
    IF collected.kind # "ok"
    THEN constantTerm' = collected
    ELSE \E sorted \in SortOutcomes(collected.value) :
             constantTerm' = SolveFrom(data, sorted)

findConstantTerm ==
    /\ constantTerm = Pending
    /\ Solved(SolveCollect(ObjectKeys(data.props), <<>>))
    /\ UNCHANGED <<parseVars, evalVars, buildVars, batchVars>>

NextSolve == findConstantTerm

SpecSolve == InitSolve /\ [][NextSolve]_vars

(***************************************************************************)
(* The batch drivers: the main loop of the file variant and                *)
(* processAllJsonFilesInCwd of the string variant                          *)
(***************************************************************************)
\* The UTF-16 code unit of a character of a file name ('.', a digit or an
\* ASCII letter): what Array.prototype.sort() compares by default.
CodeUnit(ch) ==
    IF ch = "." THEN 46
    ELSE IF \E i \in 1..26 : UPPER[i] = ch
         THEN 64 + (CHOOSE i \in 1..26 : UPPER[i] = ch)
         ELSE IF DIGIT_MAP(ch) >= 10 THEN 87 + DIGIT_MAP(ch)
              ELSE 48 + DIGIT_MAP(ch)

\* a < b for two strings: code unit by code unit, a proper prefix first.
RECURSIVE LexLessFrom(_, _, _)
LexLessFrom(a, b, i) ==
    IF i > Len(b) THEN FALSE
    ELSE IF i > Len(a) THEN TRUE
    ELSE IF a[i] = b[i] THEN LexLessFrom(a, b, i + 1)
    ELSE CodeUnit(a[i]) < CodeUnit(b[i])

LexLess(a, b) == LexLessFrom(a, b, 1)

\* Where names[i] stands after a stable ascending sort: behind the names
\* that are less and the equal names that came before it.
SortedPosition(names, i) ==
    Cardinality({h \in 1..Len(names) :
                    \/ LexLess(names[h], names[i])
                    \/ (names[h] = names[i] /\ h < i)}) + 1

\* .sort() with the default comparator.
sortNames(names) ==
    [p \in 1..Len(names) |->
        names[CHOOSE i \in 1..Len(names) : SortedPosition(names, i) = p]]

\* f.toLowerCase()
LowerName(f) == [i \in 1..Len(f) |-> toLowerCase(f[i])]

endsWith(s, suffix) ==
    /\ Len(suffix) <= Len(s)
    /\ SubSeq(s, Len(s) - Len(suffix) + 1, Len(s)) = suffix

startsWith(s, prefix) ==
    /\ Len(prefix) <= Len(s)
    /\ SubSeq(s, 1, Len(prefix)) = prefix

DotJson == <<".", "j", "s", "o", "n">>
PackageJson == <<"p", "a", "c", "k", "a", "g", "e">> \o DotJson

\* The two filters of the directory listing.
IsJsonFile(f) ==
    /\ endsWith(LowerName(f), DotJson)
    /\ f # PackageJson
    /\ ~startsWith(f, <<".">>)

\* fs.readdirSync(cwd): the names, in directory order.
DirNames(entries) == [i \in 1..Len(entries) |-> entries[i].name]

\* files.filter(...).filter(...): the names kept, in directory order.
KeptNames(entries) == SelectSeq(DirNames(entries), IsJsonFile)

\* ... .sort(): the filtered list is built once, then sorted.
ListJsonFiles(entries) ==
    CHOOSE sorted \in {sortNames(kept) : kept \in {KeptNames(entries)}} : TRUE

\* The entry of the working directory at path.resolve(cwd, fname).
EntryOf(entries, fname) ==
    entries[CHOOSE i \in 1..Len(entries) : entries[i].name = fname]

\* Reading one source and solving it: the read, the checks of the text, the
\* JSON parse and the builder of the driver's variant.
ReadAndSolve(content, v) ==
    IF content.t = "unreadable" THEN Err("ReadFailed")
    ELSE IF content.t = "empty" THEN Err("EmptyInput")
    ELSE IF content.t = "malformed" THEN Err("InvalidJson")
    ELSE Build(content.data, v).result

\* An entry of the working directory.  The solvers are functions of the text
\* alone, so what each of them gives on the content is fixed with the entry;
\* a driver's call finds it here.
DirEntry(name, content) ==
    [name |-> name, content |-> content,
     outcome |-> [file |-> ReadAndSolve(content, "file"),
                  string |-> ReadAndSolve(content, "string")]]

\* findConstantTermFromFile(abs), or readFileSync and
\* processJsonStringOrFileContent(raw), on the source fname.
SolveSource(entries, fname, v) == EntryOf(entries, fname).outcome[v]

\* BigInt.prototype.toString()
BigIntString(n) == IF n < 0 THEN <<"-">> \o NatString(-n) ELSE NatString(n)

\* den === 1n ? num.toString() : `${num}/${den}`
FormatFraction(f) ==
    IF f[2] = 1 THEN BigIntString(f[1])
    ELSE BigIntString(f[1]) \o <<"/">> \o BigIntString(f[2])

\* console.log(`${fname} => ...`): the file variant labels the value.
ResultLine(v, fname, f) ==
    [stream |-> "stdout", tag |-> fname,
     label |-> IF v = "file" THEN "constant term (c) = " ELSE "",
     body |-> FormatFraction(f)]

\* console.error(`${fname} => ERROR: ${err.message}`)
ErrorLine(fname, e) ==
    [stream |-> "stderr", tag |-> fname, label |-> "ERROR: ", body |-> <<e.kind>>]

LineOf(v, fname, r) ==
    IF r.kind = "ok" THEN ResultLine(v, fname, r.value) ELSE ErrorLine(fname, r)

\* The two messages that carry no source name.
ReadDirFailedLine ==
    [stream |-> "stderr", tag |-> <<>>,
     label |-> "Failed to read current directory", body |-> <<>>]

NoJsonFilesLine ==
    [stream |-> "stderr", tag |-> <<>>,
     label |-> "No .json files found in current directory.", body |-> <<>>]

\* The mutant lets a failure end the loop.
AfterSourceMutAbort(i, r, n) == IF r.kind = "ok" THEN i + 1 ELSE n + 1

\* for (const fname of jsonFiles) with the try/catch inside its body: the
\* next source, whatever the outcome of this one.
AfterSource(i, r, n) == i + 1

(***************************************************************************)
(* Inputs of the batch drivers                                             *)
(***************************************************************************)
Unreadable == [t |-> "unreadable", data |-> [keysK |-> Undefined, props |-> <<>>]]
EmptyText == [t |-> "empty", data |-> [keysK |-> Undefined, props |-> <<>>]]
Malformed == [t |-> "malformed", data |-> [keysK |-> Undefined, props |-> <<>>]]
Object(d) == [t |-> "object", data |-> d]

\* (1, -3), (2, 5): the constant term is -11.
IntegerObject ==
    Object([keysK |-> Num(2),
            props |-> << [key |-> <<"1">>, entry |-> Entry(Str(<<"-", "1", "_", "1">>), Num(2))],
                         [key |-> <<"2">>, entry |-> Entry(Str(<<"5">>), Num(10))] >>])

\* (2, 5), (-1, -3): the constant term is -1/3.
FractionObject ==
    Object([keysK |-> Num(2),
            props |-> << [key |-> <<"2">>, entry |-> Entry(Str(<<"5">>), Num(10))],
                         [key |-> <<"-", "1">>,
                          entry |-> Entry(Str(<<"-", "1", "_", "1">>), Num(2))] >>])

\* (1, 5), (1, -3): a duplicate x.
DuplicateObject ==
    Object([keysK |-> Num(2),
            props |-> << [key |-> <<"1">>, entry |-> Entry(Str(<<"5">>), Num(10))],
                         [key |-> <<"0", "1">>,
                          entry |-> Entry(Str(<<"-", "1", "_", "1">>), Num(2))] >>])

ContentPool == {IntegerObject, DuplicateObject, Unreadable}

ContentList == <<IntegerObject, Unreadable, FractionObject, EmptyText, Malformed,
                 DuplicateObject>>

\* Names that pass the filters, in no particular order.
SourceNames == << <<"b">> \o DotJson,
                  <<"B">> \o DotJson,
                  <<"a", ".", "J", "S", "O", "N">>,
                  <<"a", "b">> \o DotJson >>

\* Those and names the filters drop (and "Package.json", which they keep).
NameList == SourceNames \o
            << PackageJson,
               <<"P", "a", "c", "k", "a", "g", "e">> \o DotJson,
               <<".", "a">> \o DotJson,
               <<"a", ".", "t", "x", "t">> >>

\* Directories of any distinct names of NameList, the content fixed by name.
NameListings(c) ==
    \E n \in 0..MaxFiles :
        \E ix \in [1..n -> 1..Len(NameList)] :
            /\ Injective(ix)
            /\ c = [readable |-> TRUE,
                    entries |-> [i \in 1..n |->
                        DirEntry(NameList[ix[i]],
                                 ContentList[((ix[i] - 1) % Len(ContentList)) + 1])]]

\* Directories of distinct source names, in any order, with any contents.
SourceListings(c) ==
    \E n \in 1..MaxFiles :
        \E ix \in [1..n -> 1..Len(SourceNames)], cs \in [1..n -> ContentPool] :
            /\ Injective(ix)
            /\ c = [readable |-> TRUE,
                    entries |-> [i \in 1..n |->
                        DirEntry(SourceNames[ix[i]], cs[i])]]

\* A working directory that cannot be listed.
UnreadableCwd == [readable |-> FALSE, entries |-> <<>>]

InitBatch ==
    /\ NameListings(cwd) \/ SourceListings(cwd) \/ cwd = UnreadableCwd
    /\ driver = "none"
    /\ batchPc = "idle"
    /\ jsonFiles = <<>>
    /\ fileIdx = 0
    /\ emitted = <<>>
    /\ exitCode = 0
    /\ ParseIdle
    /\ EvalIdle
    /\ BuildIdle
    /\ SolveIdle

\* process.exit(1) after a message without a source name.
BatchExit(line) ==
    /\ batchPc' = "exit"
    /\ emitted' = <<line>>
    /\ exitCode' = 1
    /\ UNCHANGED <<jsonFiles, fileIdx>>

\* The loop starts at the first source.
BatchEnter(names) ==
    /\ batchPc' = "loop"
    /\ jsonFiles' = names
    /\ fileIdx' = 1
    /\ UNCHANGED <<emitted, exitCode>>

\* Up to the for loop: the listing, the filters, the sort, the empty check.
BatchStart ==
    /\ batchPc = "idle"
    /\ IF ~cwd.readable THEN BatchExit(ReadDirFailedLine)
       ELSE \E names \in {ListJsonFiles(cwd.entries)} :
                IF names = <<>> THEN BatchExit(NoJsonFilesLine) ELSE BatchEnter(names)
    /\ UNCHANGED cwd
    /\ UNCHANGED <<parseVars, evalVars, buildVars, solveVars>>

\* The file variant run as a program.
mainBatchLoop ==
    /\ driver' = "file"
    /\ BatchStart

\* The string variant started from a terminal.
processAllJsonFilesInCwd ==
    /\ driver' = "string"
    /\ BatchStart

\* The assignments of one iteration, given the outcome r of its source.
BatchIterationWith(r) ==
    /\ emitted' = Append(emitted, LineOf(driver, jsonFiles[fileIdx], r))
    /\ exitCode' = IF r.kind = "ok" THEN exitCode ELSE 1
    /\ fileIdx' = AfterSource(fileIdx, r, Len(jsonFiles))
    /\ batchPc' = IF AfterSource(fileIdx, r, Len(jsonFiles)) > Len(jsonFiles)
                  THEN "done" ELSE "loop"

\* One iteration of the for loop of either driver.
BatchIteration ==
    /\ batchPc = "loop"
    /\ fileIdx <= Len(jsonFiles)
    /\ BatchIterationWith(SolveSource(cwd.entries, jsonFiles[fileIdx], driver))
    /\ UNCHANGED <<cwd, driver, jsonFiles>>
    /\ UNCHANGED <<parseVars, evalVars, buildVars, solveVars>>

NextBatch == mainBatchLoop \/ processAllJsonFilesInCwd \/ BatchIteration

SpecBatch == InitBatch /\ [][NextBatch]_vars

\* The drivers are synchronous loops over terminating calls: a step that can
\* be taken is taken.
SpecBatchLive == SpecBatch /\ WF_vars(NextBatch)

(***************************************************************************)
(* Properties of the batch drivers                                         *)
(***************************************************************************)
\* The input sources: the names of the working directory the driver keeps.
Sources == {cwd.entries[i].name : i \in {h \in 1..Len(cwd.entries) :
                                            IsJsonFile(cwd.entries[h].name)}}

HasSources == cwd.readable /\ Sources # {}

BatchEnded == batchPc \in {"done", "exit"}

\* The line the driver writes for a source processed alone.
AloneLine(fname) ==
    LineOf(driver, fname, ReadAndSolve(EntryOf(cwd.entries, fname).content, driver))

\* The lines so far: each tagged with a source and equal to the line of that
\* source alone, in strictly ascending order of the tags.
LinesInOrder ==
    /\ \A i \in 1..Len(emitted) :
        /\ emitted[i].tag \in Sources
        /\ emitted[i] = AloneLine(emitted[i].tag)
    /\ \A a, b \in 1..Len(emitted) : a < b => LexLess(emitted[a].tag, emitted[b].tag)

\* Exactly one line per source.
OneLinePerSource ==
    /\ Len(emitted) = Cardinality(Sources)
    /\ {emitted[i].tag : i \in 1..Len(emitted)} = Sources

\* C11 as stated: in batch mode, for any set of input sources (of a working
\* directory that can be listed) and any pattern of per-source failures, the
\* driver ends having written exactly one line per source, each tagged with
\* its source and equal to what that source gives alone, in ascending
\* lexical order of the names, and the loop always reaches the last source.
C11_AsStated ==
    /\ []((cwd.readable /\ BatchEnded) => (LinesInOrder /\ OneLinePerSource))
    /\ (cwd.readable ~> (batchPc = "done"))

\* C11 amended: the same for any non-empty set of input sources.  While the
\* loop runs the lines written are those of the sources before fileIdx; a
\* driver that has sources never exits early and always reaches "done".
C11_Amended ==
    /\ [](HasSources =>
            /\ batchPc # "exit"
            /\ LinesInOrder
            /\ batchPc = "loop" => Len(emitted) = fileIdx - 1
            /\ batchPc = "done" => OneLinePerSource)
    /\ (HasSources ~> (batchPc = "done"))

\* A batch of several sources that ended after a failure of a source before
\* the last one, with a result line after the error line.
C11_Witness ==
    /\ batchPc = "done"
    /\ Len(emitted) >= 3
    /\ \E a, b \in 1..Len(emitted) :
        /\ a < b
        /\ emitted[a].stream = "stderr"
        /\ emitted[b].stream = "stdout"
    /\ jsonFiles # DirNames(cwd.entries)

(***************************************************************************)
(* Properties of solve.js                                                  *)
(***************************************************************************)
SolveDone == constantTerm # Pending

SolveX(i) == KeyToBigInt(data.props[i].key)

\* C10: for k points with pairwise distinct x on an integer polynomial p of
\* degree at most k-1 (with values the input format can carry, y >= 0),
\* findConstantTerm returns p(0).
C10_ConstantTerm ==
    (SolveDone /\ Len(data.props) = data.keysK.n
        /\ \A a, b \in 1..Len(data.props) : a # b => SolveX(a) # SolveX(b)) =>
        \A c \in [1..Len(data.props) -> Coefs] :
            (\A i \in 1..Len(data.props) :
                /\ PolyAt(c, 1, SolveX(i)) >= 0
                /\ data.props[i].entry.value.s =
                     BaseString(PolyAt(c, 1, SolveX(i)), data.props[i].entry.base.n))
                => constantTerm = Ok(c[1])

(***************************************************************************)
(* Properties of the builders                                              *)
(***************************************************************************)
BuildDone == variant # "none"

KeyOrders(n) == {f \in [1..n -> 1..n] : Injective(f)}

Permuted(d, f) == [keysK |-> d.keysK, props |-> [i \in 1..Len(d.props) |-> d.props[f[i]]]]

\* C2: the selected points and the outcome are the same for every order of
\* the record's keys in the input, also when several keys denote the same x.
C2_OrderIndependent ==
    BuildDone =>
        \A f \in KeyOrders(Len(data.props)) :
            Build(Permuted(data, f), variant) =
                [selected |-> selected, result |-> buildResult]

ValidK(d) == d.keysK.t = "number" /\ d.keysK.n > 0

\* An entry the builder v turns into a point.
GoodEntry(e, v) ==
    /\ e.t = "object"
    /\ e.base.t = "number" /\ e.base.n >= 2 /\ e.base.n <= 36
    /\ \/ e.value.t = "string" /\ parseBigIntFromString(e.value.s, IntBase(e.base.n)).kind = "ok"
       \/ /\ v = "string"
          /\ e.value.t \in {"number", "boolean"}
          /\ parseBigIntFromString(StringOf(e.value), IntBase(e.base.n)).kind = "ok"

WellFormed(d, v) ==
    /\ ValidK(d)
    /\ \A i \in 1..Len(d.props) : IsPointKey(d.props[i].key) /\ GoodEntry(d.props[i].entry, v)

XOf(d, i) == KeyToBigInt(d.props[i].key)

\* Some x is shared by two points and fewer than k-1 points lie below it:
\* any choice of the k smallest-x points holds two points of that x.
DuplicateAmongLowestK(d) ==
    \E a, b \in 1..Len(d.props) :
        /\ a # b
        /\ XOf(d, a) = XOf(d, b)
        /\ Cardinality({i \in 1..Len(d.props) : XOf(d, i) < XOf(d, a)}) + 2 <= d.keysK.n

\* C3: a well-formed record with at least k points, two of whose k
\* smallest-x points share an x, fails with DuplicateX.
C3_DuplicateRejected ==
    (BuildDone /\ WellFormed(data, variant) /\ Len(data.props) >= data.keysK.n
        /\ DuplicateAmongLowestK(data)) =>
        /\ buildResult = Err("DuplicateX")

\* Keys "2", "01", "001" with k = 2: the two lowest points are both at x = 1.
C3_Witness ==
    /\ BuildDone
    /\ data.keysK = Num(2)
    /\ Len(data.props) = 3
    /\ data.props[1].key = <<"2">>
    /\ data.props[2].key = <<"0", "1">>
    /\ data.props[3].key = <<"0", "0", "1">>
    /\ data.props[2].entry # data.props[3].entry
    /\ buildResult = Err("DuplicateX")

\* C4 as stated: every record whose keys.k is a positive integer greater
\* than the number of its point entries fails with InsufficientPoints.
C4_AsStated ==
    (BuildDone /\ ValidK(data) /\ data.keysK.n > Len(data.props)) =>
        buildResult = Err("InsufficientPoints")

\* C4 amended: every record whose point keys and entries are all
\* well-formed and whose keys.k is a positive integer greater than the number
\* of its point entries fails with InsufficientPoints, and selects nothing.
C4_Amended ==
    (BuildDone /\ WellFormed(data, variant) /\ data.keysK.n > Len(data.props)) =>
        /\ buildResult = Err("InsufficientPoints")
        /\ selected = <<>>

C4_Witness ==
    /\ BuildDone
    /\ data.keysK = Num(3)
    /\ Len(data.props) = 2
    /\ WellFormed(data, variant)
    /\ buildResult = Err("InsufficientPoints")

NotStructured(e) == e.t # "object"
MissingBase(e) == e.t = "object" /\ e.base.t = "undefined"
MissingValue(e) == e.t = "object" /\ e.value.t = "undefined"
BadValueType(e) ==
    /\ e.t = "object"
    /\ e.base.t # "undefined"
    /\ e.value.t \notin {"undefined", "string", "number", "boolean"}

\* Entry i is the only one of the record that is not good.
OnlyBadEntry(d, v, i) ==
    /\ ~GoodEntry(d.props[i].entry, v)
    /\ \A m \in 1..Len(d.props) : m # i => GoodEntry(d.props[m].entry, v)

\* C9: in a record with a valid keys.k and valid point keys, an entry that is
\* not a structured object or lacks value or base fails the string builder
\* with InvalidPointEntry, and one whose value is present but is no string,
\* number or boolean fails it with InvalidValueType.
C9_EntryErrors ==
    (BuildDone /\ variant = "string" /\ ValidK(data)
        /\ \A i \in 1..Len(data.props) : IsPointKey(data.props[i].key)) =>
        \A i \in 1..Len(data.props) :
            OnlyBadEntry(data, variant, i) =>
                /\ (NotStructured(data.props[i].entry) \/ MissingBase(data.props[i].entry)
                        \/ MissingValue(data.props[i].entry))
                     => buildResult = Err("InvalidPointEntry")
                /\ BadValueType(data.props[i].entry)
                     => buildResult = Err("InvalidValueType")

(***************************************************************************)
(* Properties of the evaluator                                             *)
(***************************************************************************)
EvalDone == evalPc = "done"

DistinctX(pts, kk) == \A a, b \in 1..kk : a # b => pts[a].x # pts[b].x

\* C1: k points with pairwise distinct x on an integer polynomial p of degree
\* at most k-1 give the result (p(0), 1).
C1_ConstantTerm ==
    (EvalDone /\ k >= 1 /\ Len(selectedPoints) = k /\ DistinctX(selectedPoints, k)) =>
        \A c \in [1..k -> Coefs] :
            (\A i \in 1..k : selectedPoints[i].y = PolyAt(c, 1, selectedPoints[i].x))
                => evalResult = Ok(<<c[1], 1>>)

\* x^2 + x + 1 at 1, 2, -1.
C1_Witness ==
    /\ EvalDone
    /\ k = 3
    /\ selectedPoints = <<Point(1, 3), Point(2, 7), Point(-1, 1)>>
    /\ evalResult = Ok(<<1, 1>>)

\* Euclid-free statement of lowest terms: no d > 1 divides both.
Coprime(a, b) == \A d \in 2..b : ~(a % d = 0 /\ b % d = 0)

NormalForm(num, den) ==
    /\ den > 0
    /\ Coprime(Abs(num), den)
    /\ num = 0 => den = 1

\* The exact sum of the first n Lagrange terms, as an unreduced pair.
RECURSIVE UnreducedSum(_, _, _)
UnreducedSum(pts, kk, n) ==
    IF n = 0 THEN <<0, 1>>
    ELSE LET prev == UnreducedSum(pts, kk, n - 1)
             basis == InnerLoop(pts, kk, n, 1, 1, 1).value
         IN  <<prev[1] * basis[2] + pts[n].y * basis[1] * prev[2], prev[2] * basis[2]>>

SameRational(a, b, c, d) == a * d = c * b

\* C5: the reduced term, the running total after each accumulation step and
\* the final result are in normal form (den > 0, gcd 1, zero as (0, 1)) and
\* denote the same rational as the unreduced value they were reduced from.
C5_NormalForm ==
    /\ (evalPc \in {"loop", "done"} /\ j >= 1) =>
         /\ NormalForm(termNum, termDen)
         /\ NormalForm(totalNum, totalDen)
         /\ LET basis == InnerLoop(selectedPoints, k, j, 1, 1, 1).value
            IN  SameRational(termNum, termDen, selectedPoints[j].y * basis[1], basis[2])
         /\ LET sum == UnreducedSum(selectedPoints, k, j)
            IN  SameRational(totalNum, totalDen, sum[1], sum[2])
    /\ (EvalDone /\ evalResult.kind = "ok") =>
         /\ NormalForm(evalResult.value[1], evalResult.value[2])
         /\ SameRational(evalResult.value[1], evalResult.value[2], totalNum, totalDen)
         /\ j = k

\* Points (2, 2) and (-1, -1): the terms are 2/3 and 2/(-3), reduced to
\* -2/3, and the total 0/9 is reduced to (0, 1).
C5_Witness ==
    /\ EvalDone
    /\ k = 2
    /\ selectedPoints = <<Point(2, 2), Point(-1, -1)>>
    /\ termNum = -2
    /\ termDen = 3
    /\ evalResult = Ok(<<0, 1>>)

\* C12: for every k >= 1 and every list of at least k points, the evaluator
\* called directly ends with DuplicateX exactly when two of the first k points
\* share an x, and otherwise with a fraction (of positive denominator);
\* ZeroDenominator and DegenerateDenominator are never raised, and no
\* denominator it keeps is ever zero.
C12_DuplicateXOnly ==
    (k >= 1 /\ Len(selectedPoints) >= k) =>
        /\ evalResult.kind \notin {"ZeroDenominator", "DegenerateDenominator"}
        /\ termDen # 0
        /\ totalDen # 0
        /\ EvalDone =>
            /\ (evalResult = Err("DuplicateX")) <=> ~DistinctX(selectedPoints, k)
            /\ DistinctX(selectedPoints, k) =>
                (evalResult.kind = "ok" /\ evalResult.value[2] > 0)

\* A call with three points whose first two x differ and whose last two are
\* equal: the first iteration completes, the second hits the duplicate.
C12_Witness ==
    /\ EvalDone
    /\ k = 3
    /\ Len(selectedPoints) = 3
    /\ selectedPoints[1].x # selectedPoints[2].x
    /\ selectedPoints[1].x # selectedPoints[3].x
    /\ selectedPoints[2].x = selectedPoints[3].x
    /\ evalResult = Err("DuplicateX")

(***************************************************************************)
(* Properties of the parser                                                *)
(***************************************************************************)
ParseDone == parseResult # Pending

ValidBase(b) == b.isInteger /\ b.n >= 2 /\ b.n <= 36

\* The digit value of an ASCII character of the alphabet 0-9a-z / A-Z, and
\* -1 for every other character.
AlphabetValue(ch) ==
    IF \E i \in 1..36 : DIGITS[i] = ch THEN (CHOOSE i \in 1..36 : DIGITS[i] = ch) - 1
    ELSE IF \E i \in 1..26 : UPPER[i] = ch THEN 9 + (CHOOSE i \in 1..26 : UPPER[i] = ch)
    ELSE -1

RECURSIVE Pow(_, _)
Pow(b, n) == IF n = 0 THEN 1 ELSE b * Pow(b, n - 1)

RECURSIVE SumTo(_, _)
SumTo(f, n) == IF n = 0 THEN 0 ELSE f[n] + SumTo(f, n - 1)

\* The value of a digit string as the sum of digit * base^position.
PositionalValue(ds, b) ==
    SumTo([i \in 1..Len(ds) |-> AlphabetValue(ds[i]) * Pow(b, Len(ds) - i)], Len(ds))

HasSign(s) == s # <<>> /\ Head(s) \in {"+", "-"}
Unsigned(s) == IF HasSign(s) THEN Tail(s) ELSE s
SignOf(s) == IF s # <<>> /\ Head(s) = "-" THEN -1 ELSE 1

IsDigitString(ds, b) ==
    /\ ds # <<>>
    /\ \A i \in 1..Len(ds) : AlphabetValue(ds[i]) >= 0 /\ AlphabetValue(ds[i]) < b

\* C6: for a valid base b and a non-empty string of digits below b with an
\* optional leading sign, the parser returns sign * (sum of digit * b^position),
\* and the string with a leading '-' parses to the negation of the string
\* without it.
C6_PositionalValue ==
    (ParseDone /\ ValidBase(base) /\ IsDigitString(Unsigned(valueString), base.n)) =>
        /\ parseResult =
             Ok(SignOf(valueString) * PositionalValue(Unsigned(valueString), base.n))
        /\ parseBigIntFromString(<<"-">> \o Unsigned(valueString), base).kind = "ok"
        /\ parseBigIntFromString(Unsigned(valueString), base).kind = "ok"
        /\ parseBigIntFromString(<<"-">> \o Unsigned(valueString), base).value =
             -(parseBigIntFromString(Unsigned(valueString), base).value)

C6_Witness ==
    /\ valueString = <<"-", "a", "A">>
    /\ base = IntBase(11)
    /\ parseResult = Ok(-120)

\* Positions of the trimmed string's body: after the sign, up to its end.
LeadingSpaces(s) == Len(s) - Len(TrimStart(s))
InsertAt(s, p) == SubSeq(s, 1, p) \o <<"_">> \o SubSeq(s, p + 1, Len(s))
SeparatorPositions(s) ==
    LET lead == LeadingSpaces(s)
        core == trim(s)
    IN  (lead + (IF HasSign(core) THEN 1 ELSE 0)) .. (lead + Len(core))

\* C7: for an accepted string, the string with every '_' deleted is accepted
\* with the same value, and so is the string with one more '_' put anywhere
\* between or around the digits after the optional sign.
C7_SeparatorsIgnored ==
    (ParseDone /\ parseResult.kind = "ok") =>
        /\ parseBigIntFromString(SelectSeq(valueString, LAMBDA ch : ch # "_"), base)
             = parseResult
        /\ \A p \in SeparatorPositions(valueString) :
             parseBigIntFromString(InsertAt(valueString, p), base) = parseResult

C7_Witness ==
    /\ valueString = <<"-", "_", "1">>
    /\ base = IntBase(10)
    /\ parseResult = Ok(-1)

\* The string after removing the optional sign and all separators.
RawBody(s) == SelectSeq(Unsigned(s), LAMBDA ch : ch # "_")
BadRawChar(s, b) ==
    \E i \in 1..Len(RawBody(s)) :
        AlphabetValue(RawBody(s)[i]) = -1 \/ AlphabetValue(RawBody(s)[i]) >= b

\* C8 as stated: a value is returned only for a valid base and a string that,
\* after removing the optional sign and all '_', is a non-empty string of
\* alphabet characters below the base; InvalidBase for a bad base, EmptyValue
\* for a string that is empty (after stripping), InvalidCharacter for a
\* character outside the alphabet or not below the base.
C8_AsStated ==
    ParseDone =>
        /\ parseResult.kind = "ok" =>
             (ValidBase(base) /\ RawBody(valueString) # <<>>
                /\ ~BadRawChar(valueString, base.n))
        /\ ~ValidBase(base) => parseResult = Err("InvalidBase")
        /\ (ValidBase(base) /\ RawBody(valueString) = <<>>) =>
             parseResult = Err("EmptyValue")
        /\ (ValidBase(base) /\ BadRawChar(valueString, base.n)) =>
             parseResult = Err("InvalidCharacter")

\* The body the code looks at: surrounding white space trimmed first.
TrimmedBody(s) == SelectSeq(Unsigned(trim(s)), LAMBDA ch : ch # "_")
LowerValue(ch) == AlphabetValue(IF ch = "KELVIN" THEN "k" ELSE ch)
BadChar(s, b) ==
    \E i \in 1..Len(TrimmedBody(s)) :
        LowerValue(TrimmedBody(s)[i]) = -1 \/ LowerValue(TrimmedBody(s)[i]) >= b

\* C8 amended: the same, for the string with its surrounding white space
\* trimmed first and each character taken in lower case; the base is checked
\* first, then emptiness, then the characters.
C8_Amended ==
    ParseDone =>
        /\ parseResult.kind \in {"ok", "InvalidBase", "EmptyValue", "InvalidCharacter"}
        /\ parseResult.kind = "ok" <=>
             (ValidBase(base) /\ TrimmedBody(valueString) # <<>>
                /\ ~BadChar(valueString, base.n))
        /\ parseResult.kind = "InvalidBase" <=> ~ValidBase(base)
        /\ parseResult.kind = "EmptyValue" <=>
             (ValidBase(base) /\ TrimmedBody(valueString) = <<>>)
        /\ parseResult.kind = "InvalidCharacter" <=>
             (ValidBase(base) /\ BadChar(valueString, base.n))

C8_Witness ==
    /\ valueString = <<" ", "1", "a">>
    /\ base = IntBase(10)
    /\ parseResult = Err("InvalidCharacter")

====
